---- MODULE Spec2Model ----
(***************************************************************************)
(* A model of the flooding key lookup of redes_tp3: servent.py (the        *)
(* servent's receive loop), utils.py (the wire codec and QueryCreator) and *)
(* client.py (the client's lookup loop), over a UDP network that delivers  *)
(* datagrams in any order or not at all.                                   *)
(*                                                                         *)
(* A str is a sequence of code points, a bytes value a sequence of         *)
(* integers in 0..255.  A function of the code that may raise returns a    *)
(* record whose field ok is FALSE when it raises.                          *)
(***************************************************************************)
EXTENDS Integers, Sequences, FiniteSets, Bags, TLC

(***************************************************************************)
(* Bounds of the model.                                                    *)
(***************************************************************************)
\* CLIREQ datagrams that reach the network at most, from all clients
\* together; the network loses every later one.
MaxRequests == 2
\* The same, in the deployment of five servents with two ways through.
MaxBypassRequests == 1

(***************************************************************************)
(* utils.py: sizes.                                                        *)
(***************************************************************************)
MAX_KEY_SIZE == 40
MAX_VALUE_SIZE == 160
MESSAGE_TYPE_SIZE == 2
CLIREQ_MESSAGE_SIZE == MESSAGE_TYPE_SIZE + MAX_KEY_SIZE + 1
RESPONSE_DATA_SIZE == MAX_KEY_SIZE + 1 + MAX_VALUE_SIZE + 1
RESPONSE_MESSAGE_SIZE == MESSAGE_TYPE_SIZE + RESPONSE_DATA_SIZE
QUERY_HEADER_SIZE == MESSAGE_TYPE_SIZE + 2 + 4 + 2 + 4
QUERY_MESSAGE_SIZE == QUERY_HEADER_SIZE + MAX_KEY_SIZE + 1
MAX_SERVER_MESSAGE_SIZE ==
    IF CLIREQ_MESSAGE_SIZE > QUERY_MESSAGE_SIZE THEN CLIREQ_MESSAGE_SIZE
                                                ELSE QUERY_MESSAGE_SIZE

\* class MessageType(enum.Enum)
CLIREQ == 1
QUERY == 2
RESPONSE == 3
MessageTypeValues == {CLIREQ, QUERY, RESPONSE}

\* QueryCreator.__init__ defaults
initial_sequence == 0
initial_ttl == 3

(***************************************************************************)
(* Slices and str/bytes primitives of Python that the codec uses.          *)
(***************************************************************************)
\* s[:n]
Take(s, n) == SubSeq(s, 1, IF Len(s) < n THEN Len(s) ELSE n)

\* s[n:]
Drop(s, n) == SubSeq(s, n + 1, Len(s))

\* F(v), with v worked out once.
With(v, F(_)) == CHOOSE r \in {F(x) : x \in {v}} : TRUE

\* One code point as UTF-8 (code points below 0x800: one or two bytes).
EncodeChar(c) ==
    IF c < 128 THEN <<c>> ELSE <<192 + (c \div 64), 128 + (c % 64)>>

\* str.encode(): UTF-8.  Every code point fills two places, the first of
\* them empty (-1) when its encoding is one byte; the bytes are the places
\* that are not empty, in order.
str_encode(s) ==
    With(s, LAMBDA t :
        SelectSeq([j \in 1..(2 * Len(t)) |->
                      IF t[(j + 1) \div 2] < 128
                      THEN IF j % 2 = 0 THEN t[(j + 1) \div 2] ELSE -1
                      ELSE EncodeChar(t[(j + 1) \div 2])[2 - (j % 2)]],
                  LAMBDA x : x # -1))

\* The code point that each byte of UTF-8 bytes gives (one- and two-byte
\* sequences; other lead bytes do not occur in the datagrams of the model and
\* are rejected): -2 at the continuation byte of a two-byte sequence, -1 at a
\* lone lead or continuation byte.
decode_code_points(b) ==
    With(b, LAMBDA t :
        [i \in 1..Len(t) |->
            IF t[i] < 128 THEN t[i]
            ELSE IF /\ t[i] >= 194 /\ t[i] <= 223 /\ i < Len(t)
                    /\ t[i + 1] >= 128 /\ t[i + 1] <= 191
            THEN (t[i] - 192) * 64 + (t[i + 1] - 128)
            ELSE IF /\ t[i] >= 128 /\ t[i] <= 191 /\ i > 1
                    /\ t[i - 1] >= 194 /\ t[i - 1] <= 223
            THEN -2
            ELSE -1])

\* bytes.decode(): strict UTF-8; raises UnicodeDecodeError on a lone lead or
\* continuation byte.
bytes_decode(b) ==
    With(decode_code_points(b), LAMBDA points :
        IF \A i \in DOMAIN points : points[i] # -1
        THEN [ok |-> TRUE, str |-> SelectSeq(points, LAMBDA x : x # -2)]
        ELSE [ok |-> FALSE, str |-> <<>>])

\* str.rstrip('\0')
RECURSIVE rstrip_nul(_)
rstrip_nul(s) ==
    With(s, LAMBDA t :
        IF t # <<>> /\ t[Len(t)] = 0
        THEN rstrip_nul(SubSeq(t, 1, Len(t) - 1))
        ELSE t)

\* struct '!H': two bytes, big endian.
U16(v) == <<v \div 256, v % 256>>
\* struct '!I': four bytes, big endian.
U32(v) == <<v \div 16777216, (v \div 65536) % 256, (v \div 256) % 256, v % 256>>
FromU16(b) == b[1] * 256 + b[2]
FromU32(b) == ((b[1] * 256 + b[2]) * 256 + b[3]) * 256 + b[4]

\* pack_type = struct.Struct('!H').pack
pack_type(v) == U16(v)

\* unpack_type = struct.Struct('!H').unpack: struct.error unless 2 bytes.
unpack_type(b) ==
    IF Len(b) = MESSAGE_TYPE_SIZE THEN [ok |-> TRUE, val |-> FromU16(b)]
                                  ELSE [ok |-> FALSE, val |-> 0]

(***************************************************************************)
(* Hosts.  socket.inet_aton / inet_ntoa convert between the dotted-quad    *)
(* text of an address and its 4 packed bytes.                              *)
(***************************************************************************)
LocalIP == "127.0.0.1"
IPs == {LocalIP}
inet_aton(ip) == CASE ip = "127.0.0.1" -> <<127, 0, 0, 1>>
inet_ntoa(packed) == CHOOSE ip \in IPs \cup {"?"} :
                        IF \E i \in IPs : inet_aton(i) = packed
                        THEN ip \in IPs /\ inet_aton(ip) = packed
                        ELSE ip = "?"

(***************************************************************************)
(* utils.py: the query model.                                              *)
(***************************************************************************)
\* QueryContent(key, address, sequence)
QueryContent(key, address, sequence) ==
    [key |-> key, address |-> address, sequence |-> sequence]

\* Query(content, ttl)
Query(content, ttl) == [content |-> content, ttl |-> ttl]

\* QueryCreator.__init__
QueryCreator ==
    [next_sequence |-> initial_sequence, initial_ttl |-> initial_ttl]

\* A new_query that hands out the same sequence number again.
new_query_no_increment(creator, key, address) ==
    [query |-> Query(QueryContent(key, address, creator.next_sequence),
                     creator.initial_ttl),
     creator |-> creator]

\* A new_query that gives the query one hop more than the initial ttl.
new_query_ttl_more(creator, key, address) ==
    [query |-> Query(QueryContent(key, address, creator.next_sequence),
                     creator.initial_ttl + 1),
     creator |-> [creator EXCEPT !.next_sequence = @ + 1]]

\* A new_query that consumes a hop when it creates the query.
new_query_ttl_consumed(creator, key, address) ==
    [query |-> Query(QueryContent(key, address, creator.next_sequence),
                     creator.initial_ttl - 1),
     creator |-> [creator EXCEPT !.next_sequence = @ + 1]]

\* QueryCreator.new_query: the query, and the creator after the call.
new_query(creator, key, address) ==
    [query |-> Query(QueryContent(key, address, creator.next_sequence),
                     creator.initial_ttl),
     creator |-> [creator EXCEPT !.next_sequence = @ + 1]]

(***************************************************************************)
(* utils.py: the wire codec.                                               *)
(***************************************************************************)
\* extract_message_type: struct.error on fewer than 2 bytes, ValueError on a
\* tag that is no MessageType.
extract_message_type(packed_message) ==
    LET u == unpack_type(Take(packed_message, MESSAGE_TYPE_SIZE))
    IN  IF u.ok /\ u.val \in MessageTypeValues
        THEN [ok |-> TRUE, val |-> u.val]
        ELSE [ok |-> FALSE, val |-> 0]

\* pack_clireq
pack_clireq(key) ==
    pack_type(CLIREQ) \o str_encode(Take(key, MAX_KEY_SIZE) \o <<0>>)

\* unpack_clireq: a tag other than CLIREQ is only logged.
unpack_clireq(clireq) ==
    LET message_type == extract_message_type(clireq)
        text == bytes_decode(Drop(clireq, MESSAGE_TYPE_SIZE))
    IN  IF message_type.ok /\ text.ok
        THEN [ok |-> TRUE, key |-> rstrip_nul(text.str)]
        ELSE [ok |-> FALSE, key |-> <<>>]

\* pack_response
pack_response(key, value) ==
    pack_type(RESPONSE)
        \o str_encode(Take(key, MAX_KEY_SIZE) \o <<9>>
                      \o Take(value, MAX_VALUE_SIZE) \o <<0>>)

\* unpack_response: a tag other than RESPONSE is only logged.
unpack_response(response) ==
    LET message_type == extract_message_type(response)
        text == bytes_decode(Drop(response, MESSAGE_TYPE_SIZE))
    IN  IF message_type.ok /\ text.ok
        THEN [ok |-> TRUE, text |-> rstrip_nul(text.str)]
        ELSE [ok |-> FALSE, text |-> <<>>]

\* pack_query_header = struct.Struct('!HH4sHI').pack: struct.error when a
\* number does not fit its field.
pack_query_header(message_type, ttl, packed_ip, port, sequence) ==
    IF /\ message_type \in 0..65535 /\ ttl \in 0..65535
       /\ port \in 0..65535
       /\ sequence >= 0 /\ sequence \div 65536 \in 0..65535
    THEN [ok |-> TRUE,
          bytes |-> U16(message_type) \o U16(ttl) \o Take(packed_ip, 4)
                        \o U16(port) \o U32(sequence)]
    ELSE [ok |-> FALSE, bytes |-> <<>>]

\* unpack_query_header = struct.Struct('!HH4sHI').unpack: struct.error
\* unless the buffer has exactly 14 bytes.
unpack_query_header(b) ==
    IF Len(b) = QUERY_HEADER_SIZE
    THEN [ok |-> TRUE,
          message_type |-> FromU16(SubSeq(b, 1, 2)),
          ttl |-> FromU16(SubSeq(b, 3, 4)),
          packed_ip |-> SubSeq(b, 5, 8),
          port |-> FromU16(SubSeq(b, 9, 10)),
          sequence |-> FromU32(SubSeq(b, 11, 14))]
    ELSE [ok |-> FALSE, message_type |-> 0, ttl |-> 0, packed_ip |-> <<>>,
          port |-> 0, sequence |-> 0]

\* pack_query
pack_query(query) ==
    LET data == str_encode(Take(query.content.key, MAX_KEY_SIZE) \o <<0>>)
        ip == query.content.address[1]
        port == query.content.address[2]
        packed_ip == inet_aton(ip)
        header == pack_query_header(QUERY, query.ttl, packed_ip, port,
                                    query.content.sequence)
    IN  [ok |-> header.ok, bytes |-> header.bytes \o data]

\* An unpack_query that takes two off the ttl of the wire.
unpack_query_two_off(query) ==
    LET h == unpack_query_header(Take(query, QUERY_HEADER_SIZE))
        text == bytes_decode(Drop(query, QUERY_HEADER_SIZE))
    IN  IF h.ok /\ text.ok /\ h.message_type \in MessageTypeValues
        THEN [ok |-> TRUE,
              query |-> Query(QueryContent(rstrip_nul(text.str),
                                           <<inet_ntoa(h.packed_ip), h.port>>,
                                           h.sequence),
                              h.ttl - 2)]
        ELSE [ok |-> FALSE,
              query |-> Query(QueryContent(<<>>, <<"", 0>>, 0), 0)]

\* An unpack_query that returns the ttl of the wire unchanged.
unpack_query_keeping_ttl(query) ==
    LET h == unpack_query_header(Take(query, QUERY_HEADER_SIZE))
        text == bytes_decode(Drop(query, QUERY_HEADER_SIZE))
    IN  IF h.ok /\ text.ok /\ h.message_type \in MessageTypeValues
        THEN [ok |-> TRUE,
              query |-> Query(QueryContent(rstrip_nul(text.str),
                                           <<inet_ntoa(h.packed_ip), h.port>>,
                                           h.sequence),
                              h.ttl)]
        ELSE [ok |-> FALSE,
              query |-> Query(QueryContent(<<>>, <<"", 0>>, 0), 0)]

\* unpack_query: decreases the ttl.  A tag other than QUERY is only logged,
\* a tag that is no MessageType raises ValueError.
unpack_query(query) ==
    LET h == unpack_query_header(Take(query, QUERY_HEADER_SIZE))
        text == bytes_decode(Drop(query, QUERY_HEADER_SIZE))
    IN  IF h.ok /\ text.ok /\ h.message_type \in MessageTypeValues
        THEN [ok |-> TRUE,
              query |-> Query(QueryContent(rstrip_nul(text.str),
                                           <<inet_ntoa(h.packed_ip), h.port>>,
                                           h.sequence),
                              h.ttl - 1)]
        ELSE [ok |-> FALSE,
              query |-> Query(QueryContent(<<>>, <<"", 0>>, 0), 0)]

(***************************************************************************)
(* Deployments: what the command lines and dict files of the processes     *)
(* provide.  All processes run on one host.                                *)
(***************************************************************************)
Servents == {"A", "B", "C", "D", "E"}
Clients == {"c1", "c2"}

\* servent.py parse_args: local_port
local_port == [s \in Servents |->
    CASE s = "A" -> 9000 [] s = "B" -> 9001 [] s = "C" -> 9002
      [] s = "D" -> 9003 [] s = "E" -> 9004]

\* The address at which the bound socket of s receives.
ListenAddress(s) == <<LocalIP, local_port[s]>>

\* No address: the process is not started in the deployment.
NoAddress == <<"", 0>>

\* Keys and values, as code points.
Foo == <<102, 111, 111>>
Bar == <<98, 97, 114>>
Baz == <<98, 97, 122>>
Qux == <<113, 117, 120>>
\* 'a' followed by 39 times U+00E9: 40 characters, 79 bytes of UTF-8.
LongKey == [i \in 1..MAX_KEY_SIZE |-> IF i = 1 THEN 97 ELSE 233]

NoEntries == [k \in {} |-> <<>>]

\* The scenario of two servents, made mutual: A and B are neighbours of each
\* other, A knows foo, B knows baz; client c1 queries A.
Pair ==
    [name |-> "pair",
     neighbor_addresses |-> [s \in Servents |->
         CASE s = "A" -> <<ListenAddress("B")>>
           [] s = "B" -> <<ListenAddress("A")>>
           [] OTHER -> <<>>],
     database |-> [s \in Servents |->
         CASE s = "A" -> [k \in {Foo} |-> Bar]
           [] s = "B" -> [k \in {Baz} |-> Qux]
           [] OTHER -> NoEntries],
     address |-> [c \in Clients |->
         CASE c = "c1" -> ListenAddress("A") [] OTHER -> NoAddress],
     keys |-> {Baz},
     strays |-> {}]

\* The scenario of two servents with a client at each: B is the neighbour of
\* A, A knows foo, B knows baz; client c1 queries A, client c2 queries B.
Shared ==
    [name |-> "shared",
     neighbor_addresses |-> [s \in Servents |->
         CASE s = "A" -> <<ListenAddress("B")>>
           [] OTHER -> <<>>],
     database |-> Pair.database,
     address |-> [c \in Clients |->
         CASE c = "c1" -> ListenAddress("A") [] c = "c2" -> ListenAddress("B")],
     keys |-> {Baz},
     strays |-> {}]

\* A triangle, two paths from A to C: the neighbours of A are B and C, the
\* neighbour of B is C; C knows baz; client c1 queries A.
Triangle ==
    [name |-> "triangle",
     neighbor_addresses |-> [s \in Servents |->
         CASE s = "A" -> <<ListenAddress("B"), ListenAddress("C")>>
           [] s = "B" -> <<ListenAddress("C")>>
           [] OTHER -> <<>>],
     database |-> [s \in Servents |->
         CASE s = "C" -> [k \in {Baz} |-> Qux]
           [] OTHER -> NoEntries],
     address |-> [c \in Clients |->
         CASE c = "c1" -> ListenAddress("A") [] OTHER -> NoAddress],
     keys |-> {Baz},
     strays |-> {}]

\* A ring A -> B -> C -> D -> A; D knows baz; client c1 queries A.
Ring ==
    [name |-> "ring",
     neighbor_addresses |-> [s \in Servents |->
         CASE s = "A" -> <<ListenAddress("B")>>
           [] s = "B" -> <<ListenAddress("C")>>
           [] s = "C" -> <<ListenAddress("D")>>
           [] s = "D" -> <<ListenAddress("A")>>
           [] OTHER -> <<>>],
     database |-> [s \in Servents |->
         CASE s = "D" -> [k \in {Baz} |-> Qux]
           [] OTHER -> NoEntries],
     address |-> [c \in Clients |->
         CASE c = "c1" -> ListenAddress("A") [] OTHER -> NoAddress],
     keys |-> {Baz},
     strays |-> {}]

\* A line A -> B -> C; the operator types a key of 40 characters that is
\* not ASCII; C knows the first 21 characters of it as a key.
Line ==
    [name |-> "line",
     neighbor_addresses |-> [s \in Servents |->
         CASE s = "A" -> <<ListenAddress("B")>>
           [] s = "B" -> <<ListenAddress("C")>>
           [] OTHER -> <<>>],
     database |-> [s \in Servents |->
         CASE s = "C" -> [k \in {Take(LongKey, 21)} |-> Qux]
           [] OTHER -> NoEntries],
     address |-> [c \in Clients |->
         CASE c = "c1" -> ListenAddress("A") [] OTHER -> NoAddress],
     keys |-> {LongKey},
     strays |-> {}]

\* A line A -> C -> D -> E with a way round from A to C over B: the
\* neighbours of A are B and C, the neighbour of B is C; E, three links from
\* A, knows baz; client c1 queries A.
Bypass ==
    [name |-> "bypass",
     neighbor_addresses |-> [s \in Servents |->
         CASE s = "A" -> <<ListenAddress("B"), ListenAddress("C")>>
           [] s = "B" -> <<ListenAddress("C")>>
           [] s = "C" -> <<ListenAddress("D")>>
           [] s = "D" -> <<ListenAddress("E")>>
           [] OTHER -> <<>>],
     database |-> [s \in Servents |->
         CASE s = "E" -> [k \in {Baz} |-> Qux]
           [] OTHER -> NoEntries],
     address |-> [c \in Clients |->
         CASE c = "c1" -> ListenAddress("A") [] OTHER -> NoAddress],
     keys |-> {Baz},
     strays |-> {}]

\* A servent alone, with a client, on a network where another process sends
\* a datagram of its own to the servent's port: too short for a tag, a tag
\* that is no MessageType, a QUERY tag without a header, or a RESPONSE.
Open ==
    [name |-> "open",
     neighbor_addresses |-> [s \in Servents |-> <<>>],
     database |-> [s \in Servents |->
         CASE s = "A" -> [k \in {Foo} |-> Bar]
           [] OTHER -> NoEntries],
     address |-> [c \in Clients |->
         CASE c = "c1" -> ListenAddress("A") [] OTHER -> NoAddress],
     keys |-> {Foo},
     strays |-> {<<0>>, <<0, 4>>, pack_type(QUERY), pack_response(Baz, Qux)}]

Deployments == {Pair, Shared, Triangle, Ring, Line, Bypass, Open}

\* Ports the system gives to the unbound sockets of clients, of servents and
\* of the other process.  A port belongs to one open socket at a time; the
\* three kinds of sender draw from sets of their own, apart from the ports
\* the servents listen on.
ClientPorts == {50001, 50002}
EphemeralPorts == {40001}
StrayPorts == {60001}

(***************************************************************************)
(* State.                                                                  *)
(***************************************************************************)
VARIABLES
    deployment,       \* the deployment that runs
    running,          \* servent -> its process is in the receive loop
    query_creator,    \* servent -> its QueryCreator
    queries_seen,     \* servent -> its set of QueryContent
    net,              \* bag of datagrams sent and not yet received or lost
    pc,               \* client -> where it is in its loop
    client_socket,    \* client -> the port of its socket (0: none yet)
    clireq,           \* client -> the packed CLIREQ of its lookup
    printed,          \* client -> lines printed in its lookup (by: history)
    requests,         \* CLIREQ datagrams that reached the network
    sendtos,          \* history: client -> sendto calls of its lookup
    timeouts,         \* history: client -> socket.timeout raised in its lookup
    stray_sent,       \* the other process has sent its datagram
    clireqs,          \* history: servent -> CLIREQs it made a query from
    created,          \* history: the queries made from CLIREQs
    forward_passes,   \* history: servent -> bag of contents it forwarded
    queries_sent,     \* history: bag of the QUERY sends, by whom, to whom
    answers,          \* history: servent -> bag of contents it answered
    last              \* history: what the last step of a servent did

vars == <<deployment, running, query_creator, queries_seen, net, pc, client_socket,
          clireq, printed, requests, sendtos, timeouts, stray_sent, clireqs,
          created, forward_passes, queries_sent, answers, last>>

\* The bound on the CLIREQ datagrams of the deployment that runs.
RequestBound ==
    IF deployment.name = "bypass" THEN MaxBypassRequests ELSE MaxRequests

servent_vars == <<running, query_creator, queries_seen, clireqs, created,
                  forward_passes, queries_sent, answers>>
client_vars == <<pc, client_socket, clireq, printed, requests, sendtos,
                 timeouts>>


\* A datagram.  History only: by is the process that sent it; a QUERY of a
\* servent has the servent that made the query from a CLIREQ as its root and
\* the number of sends from servent to servent behind it, this one counted,
\* as its hops.
Datagram(src, dst, data, by) ==
    [src |-> src, dst |-> dst, data |-> data, by |-> by, hops |-> 0,
     root |-> ""]

NoQuery == Query(QueryContent(<<>>, <<"", 0>>, 0), 0)
NoDatagram == Datagram(<<"", 0>>, <<"", 0>>, <<>>, "")

\* No servent step was the last step.
Idle ==
    [op |-> "idle", at |-> "", datagram |-> NoDatagram, query |-> NoQuery,
     seen_before |-> FALSE, forward_pass |-> FALSE, forwards |-> <<>>,
     responses |-> <<>>]

Init ==
    /\ deployment \in Deployments
    /\ running = [s \in Servents |-> TRUE]
    /\ query_creator = [s \in Servents |-> QueryCreator]
    /\ queries_seen = [s \in Servents |-> {}]
    /\ net = EmptyBag
    /\ pc = [c \in Clients |-> "prompt"]
    /\ client_socket = [c \in Clients |-> 0]
    /\ clireq = [c \in Clients |-> <<>>]
    /\ printed = [c \in Clients |-> <<>>]
    /\ requests = 0
    /\ sendtos = [c \in Clients |-> 0]
    /\ timeouts = [c \in Clients |-> 0]
    /\ stray_sent = FALSE
    /\ clireqs = [s \in Servents |-> 0]
    /\ created = {}
    /\ forward_passes = [s \in Servents |-> EmptyBag]
    /\ queries_sent = EmptyBag
    /\ answers = [s \in Servents |-> EmptyBag]
    /\ last = Idle

(***************************************************************************)
(* servent.py main: one iteration of the receive loop.                     *)
(***************************************************************************)
\* A dedup test that never finds a query.
already_seen_never(query, seen) == FALSE

\* line 54: query.content in queries_seen
already_seen(query, seen) == query.content \in seen

\* A forwarding test that lets a query with ttl 0 through.
may_forward_ttl_zero(query, neighbors) == query.ttl >= 0 /\ neighbors # <<>>

\* line 59: query.ttl > 0 and args.neighbor_addresses
may_forward(query, neighbors) == query.ttl > 0 /\ neighbors # <<>>

\* lines 61-62: the neighbours other than the sender of the datagram
forward_targets(neighbors, message_origin) ==
    SelectSeq(neighbors, LAMBDA n : n # message_origin)

\* A response sent back to where the datagram came from.
response_destination_sender(query, message_origin) == message_origin

\* line 72: the response goes to query.content.address
response_destination(query, message_origin) == query.content.address

\* The process ends with an uncaught exception.
Raised(op, creator, seen) ==
    [ok |-> FALSE, op |-> op, query |-> NoQuery, creator |-> creator,
     seen |-> seen, forward_pass |-> FALSE, forwards |-> <<>>,
     responses |-> <<>>]

\* lines 40-52: the kind of the datagram and the query made from it.
Classify(creator, message_data, message_origin) ==
    LET message_type == extract_message_type(message_data)
    IN  IF ~message_type.ok THEN [ok |-> FALSE, op |-> "raise",
                                  query |-> NoQuery, creator |-> creator]
        ELSE IF message_type.val = CLIREQ
        THEN LET k == unpack_clireq(message_data)
                 n == new_query(creator, k.key, message_origin)
             IN  IF k.ok
                 THEN [ok |-> TRUE, op |-> "clireq", query |-> n.query,
                       creator |-> n.creator]
                 ELSE [ok |-> FALSE, op |-> "raise", query |-> NoQuery,
                       creator |-> creator]
        ELSE IF message_type.val = QUERY
        THEN LET u == unpack_query(message_data)
             IN  IF u.ok
                 THEN [ok |-> TRUE, op |-> "query", query |-> u.query,
                       creator |-> creator]
                 ELSE [ok |-> FALSE, op |-> "raise", query |-> NoQuery,
                       creator |-> creator]
        ELSE [ok |-> TRUE, op |-> "response", query |-> NoQuery,
              creator |-> creator]

\* A servent that answers only the queries it does not forward.
Process_exclusive(s, op, query, creator, seen, message_origin) ==
    IF already_seen(query, seen)
    THEN [ok |-> TRUE, op |-> op, query |-> query, creator |-> creator,
          seen |-> seen, forward_pass |-> FALSE, forwards |-> <<>>,
          responses |-> <<>>]
    ELSE LET forward_pass == may_forward(query, deployment.neighbor_addresses[s])
             packed_query == pack_query(query)
             targets == IF forward_pass
                        THEN forward_targets(deployment.neighbor_addresses[s],
                                             message_origin)
                        ELSE <<>>
             key == query.content.key
         IN  IF forward_pass /\ ~packed_query.ok
             THEN Raised("raise", creator, seen \cup {query.content})
             ELSE [ok |-> TRUE, op |-> op, query |-> query,
                   creator |-> creator,
                   seen |-> seen \cup {query.content},
                   forward_pass |-> forward_pass,
                   forwards |-> [i \in 1..Len(targets) |->
                                   [dst |-> targets[i],
                                    data |-> packed_query.bytes]],
                   responses |->
                       IF ~forward_pass /\ key \in DOMAIN deployment.database[s]
                       THEN <<[dst |-> response_destination(query,
                                                            message_origin),
                               data |-> pack_response(key,
                                                      deployment.database[s][key])]>>
                       ELSE <<>>]

\* lines 54-72: dedup, forwarding and the local answer.
Process(s, op, query, creator, seen, message_origin) ==
    IF already_seen(query, seen)
    THEN [ok |-> TRUE, op |-> op, query |-> query, creator |-> creator,
          seen |-> seen, forward_pass |-> FALSE, forwards |-> <<>>,
          responses |-> <<>>]
    ELSE LET forward_pass == may_forward(query, deployment.neighbor_addresses[s])
             packed_query == pack_query(query)
             targets == IF forward_pass
                        THEN forward_targets(deployment.neighbor_addresses[s],
                                             message_origin)
                        ELSE <<>>
             key == query.content.key
         IN  IF forward_pass /\ ~packed_query.ok
             THEN Raised("raise", creator, seen \cup {query.content})
             ELSE [ok |-> TRUE, op |-> op, query |-> query,
                   creator |-> creator,
                   seen |-> seen \cup {query.content},
                   forward_pass |-> forward_pass,
                   forwards |-> [i \in 1..Len(targets) |->
                                   [dst |-> targets[i],
                                    data |-> packed_query.bytes]],
                   responses |->
                       IF key \in DOMAIN deployment.database[s]
                       THEN <<[dst |-> response_destination(query,
                                                            message_origin),
                               data |-> pack_response(key,
                                                      deployment.database[s][key])]>>
                       ELSE <<>>]

\* An iteration that draws a sequence number for a RESPONSE it receives.
Iteration_response_counted(s, c, creator, seen, message_origin) ==
    IF ~c.ok THEN Raised("raise", creator, seen)
    ELSE IF c.op = "response"
    THEN [ok |-> TRUE, op |-> "response", query |-> NoQuery,
          creator |-> [creator EXCEPT !.next_sequence = @ + 1],
          seen |-> seen, forward_pass |-> FALSE,
          forwards |-> <<>>, responses |-> <<>>]
    ELSE Process(s, c.op, c.query, c.creator, seen, message_origin)

\* lines 40-72: what servent s does with a datagram from message_origin that
\* it has classified as c.
Iteration(s, c, creator, seen, message_origin) ==
    IF ~c.ok THEN Raised("raise", creator, seen)
    ELSE IF c.op = "response"
    THEN [ok |-> TRUE, op |-> "response", query |-> NoQuery,
          creator |-> creator, seen |-> seen, forward_pass |-> FALSE,
          forwards |-> <<>>, responses |-> <<>>]
    ELSE Process(s, c.op, c.query, c.creator, seen, message_origin)

\* The bag of the datagrams of a sequence.
RECURSIVE SeqToBag(_)
SeqToBag(q) ==
    IF q = <<>> THEN EmptyBag ELSE SetToBag({Head(q)}) (+) SeqToBag(Tail(q))

\* The datagrams servent s sends in the iteration of kind op for the
\* datagram received, each from a socket of its own (lines 64, 71) whose port
\* the system picks.
Sent(s, sends, ports, received, op) ==
    [i \in 1..Len(sends) |->
        IF Take(sends[i].data, MESSAGE_TYPE_SIZE) = pack_type(QUERY)
        THEN [Datagram(<<LocalIP, ports[i]>>, sends[i].dst, sends[i].data, s)
                  EXCEPT !.hops = IF op = "clireq" THEN 1
                                                   ELSE received.hops + 1,
                         !.root = IF op = "clireq" THEN s ELSE received.root]
        ELSE Datagram(<<LocalIP, ports[i]>>, sends[i].dst, sends[i].data, s)]

\* The servent s receives a datagram (lines 38-39: at most
\* MAX_SERVER_MESSAGE_SIZE bytes of it) and runs one iteration of its loop.
ServentReceive(s) ==
    /\ running[s]
    /\ \E d \in BagToSet(net) :
         /\ d.dst = ListenAddress(s)
         /\ \E c \in {Classify(query_creator[s],
                                Take(d.data, MAX_SERVER_MESSAGE_SIZE), d.src)} :
              \E o \in {Iteration(s, c, query_creator[s], queries_seen[s],
                                  d.src)} :
                \E ports \in [1..Len(o.forwards \o o.responses)
                                  -> EphemeralPorts] :
                  \E out \in {Sent(s, o.forwards \o o.responses, ports, d,
                                   o.op)} :
                      /\ running' = [running EXCEPT ![s] = o.ok]
                      /\ query_creator' = [query_creator EXCEPT ![s] = o.creator]
                      /\ queries_seen' = [queries_seen EXCEPT ![s] = o.seen]
                      /\ net' = (net (-) SetToBag({d})) (+) SeqToBag(out)
                      /\ clireqs' = [clireqs EXCEPT
                             ![s] = IF o.op = "clireq" THEN @ + 1 ELSE @]
                      /\ created' =
                             IF o.op = "clireq"
                             THEN created \cup {[at |-> s, n |-> clireqs[s] + 1,
                                                 origin |-> d.src, by |-> d.by,
                                                 content |-> o.query.content]}
                             ELSE created
                      /\ forward_passes' = [forward_passes EXCEPT
                             ![s] = IF o.forward_pass
                                    THEN @ (+) SetToBag({o.query.content})
                                    ELSE @]
                      /\ queries_sent' = queries_sent (+) SeqToBag(
                             [i \in 1..Len(o.forwards) |->
                                 [by |-> s, to |-> o.forwards[i].dst,
                                  content |-> o.query.content]])
                      /\ answers' = [answers EXCEPT
                             ![s] = IF o.responses # <<>>
                                    THEN @ (+) SetToBag({o.query.content})
                                    ELSE @]
                      /\ last' = [op |-> o.op, at |-> s, datagram |-> d,
                                  query |-> o.query,
                                  seen_before |->
                                      o.query.content \in queries_seen[s],
                                  forward_pass |-> o.forward_pass,
                                  forwards |-> SubSeq(out, 1, Len(o.forwards)),
                                  responses |-> SubSeq(out, Len(o.forwards) + 1,
                                                       Len(out))]
    /\ UNCHANGED <<deployment, stray_sent, client_vars>>

(***************************************************************************)
(* client.py main: the lookup loop.                                        *)
(***************************************************************************)
\* Ports no open client socket holds.
FreeClientPorts(c) ==
    ClientPorts \ {client_socket[x] : x \in Clients \ {c}}

\* lines 35-42: a key is typed; a new socket sends the CLIREQ.
ClientLookup(c) ==
    /\ deployment.address[c] # NoAddress
    /\ pc[c] = "prompt"
    /\ requests < RequestBound
    /\ \E query \in deployment.keys, port \in FreeClientPorts(c) :
         /\ clireq' = [clireq EXCEPT ![c] = pack_clireq(query)]
         /\ client_socket' = [client_socket EXCEPT ![c] = port]
         /\ net' = net (+) SetToBag({Datagram(<<LocalIP, port>>, deployment.address[c],
                                              pack_clireq(query), c)})
    /\ pc' = [pc EXCEPT ![c] = "first"]
    /\ printed' = [printed EXCEPT ![c] = <<>>]
    /\ requests' = requests + 1
    /\ sendtos' = [sendtos EXCEPT ![c] = 1]
    /\ timeouts' = [timeouts EXCEPT ![c] = 0]
    /\ last' = Idle
    /\ UNCHANGED <<deployment, stray_sent, servent_vars>>

\* lines 56-61 recv_and_print_response, called at line 44 or 51.
ClientReceive(c) ==
    /\ pc[c] \in {"first", "drain"}
    /\ \E d \in BagToSet(net) :
         /\ d.dst = <<LocalIP, client_socket[c]>>
         /\ \E value \in {unpack_response(Take(d.data, RESPONSE_MESSAGE_SIZE))} :
                /\ net' = net (-) SetToBag({d})
                /\ IF value.ok
                   THEN /\ printed' = [printed EXCEPT
                               ![c] = Append(@, [address |-> d.src,
                                                 value |-> value.text,
                                                 by |-> d.by])]
                        /\ pc' = [pc EXCEPT ![c] = "drain"]
                        /\ UNCHANGED client_socket
                   ELSE /\ pc' = [pc EXCEPT ![c] = "exited"]
                        /\ client_socket' = [client_socket EXCEPT ![c] = 0]
                        /\ UNCHANGED printed
    /\ last' = Idle
    /\ UNCHANGED <<clireq, requests, sendtos, timeouts>>
    /\ UNCHANGED <<deployment, stray_sent, servent_vars>>

\* A client that waits for the first RESPONSE again after it has sent the
\* CLIREQ again.
ClientRetry_again(c) ==
    /\ pc[c] = "first"
    /\ IF requests < RequestBound
       THEN /\ net' = net (+) SetToBag({Datagram(<<LocalIP, client_socket[c]>>,
                                                 deployment.address[c],
                                                 clireq[c], c)})
            /\ requests' = requests + 1
       ELSE UNCHANGED <<net, requests>>
    /\ pc' = [pc EXCEPT ![c] = "first"]
    /\ sendtos' = [sendtos EXCEPT ![c] = @ + 1]
    /\ timeouts' = [timeouts EXCEPT ![c] = @ + 1]
    /\ last' = Idle
    /\ UNCHANGED <<client_socket, clireq, printed>>
    /\ UNCHANGED <<deployment, stray_sent, servent_vars>>

\* lines 45-47: the first wait times out; the CLIREQ is sent again.
ClientRetry(c) ==
    /\ pc[c] = "first"
    /\ IF requests < RequestBound
       THEN /\ net' = net (+) SetToBag({Datagram(<<LocalIP, client_socket[c]>>,
                                                 deployment.address[c],
                                                 clireq[c], c)})
            /\ requests' = requests + 1
       ELSE UNCHANGED <<net, requests>>
    /\ pc' = [pc EXCEPT ![c] = "drain"]
    /\ sendtos' = [sendtos EXCEPT ![c] = @ + 1]
    /\ timeouts' = [timeouts EXCEPT ![c] = @ + 1]
    /\ last' = Idle
    /\ UNCHANGED <<client_socket, clireq, printed>>
    /\ UNCHANGED <<deployment, stray_sent, servent_vars>>

\* A drain loop whose timeout starts the wait for the first RESPONSE over.
ClientStop_waits_again(c) ==
    /\ pc[c] = "drain"
    /\ pc' = [pc EXCEPT ![c] = "first"]
    /\ sendtos' = [sendtos EXCEPT ![c] = 1]
    /\ timeouts' = [timeouts EXCEPT ![c] = 0]
    /\ printed' = [printed EXCEPT ![c] = <<>>]
    /\ last' = Idle
    /\ UNCHANGED <<net, client_socket, clireq, requests>>
    /\ UNCHANGED <<deployment, stray_sent, servent_vars>>

\* lines 52-53: a wait of the drain loop times out; back to the prompt.
ClientStop(c) ==
    /\ pc[c] = "drain"
    /\ pc' = [pc EXCEPT ![c] = "prompt"]
    /\ timeouts' = [timeouts EXCEPT ![c] = @ + 1]
    /\ last' = Idle
    /\ UNCHANGED <<net, client_socket, clireq, printed, requests, sendtos>>
    /\ UNCHANGED <<deployment, stray_sent, servent_vars>>

\* line 35: input() meets the end of its input; the process and its socket
\* are gone.
ClientExit(c) ==
    /\ deployment.address[c] # NoAddress
    /\ pc[c] = "prompt"
    /\ pc' = [pc EXCEPT ![c] = "exited"]
    /\ client_socket' = [client_socket EXCEPT ![c] = 0]
    /\ last' = Idle
    /\ UNCHANGED <<net, clireq, printed, requests, sendtos, timeouts>>
    /\ UNCHANGED <<deployment, stray_sent, servent_vars>>

(***************************************************************************)
(* The network.  UDP delivers in any order, and a datagram it loses is a   *)
(* datagram that no step ever receives.  On an open network a process that *)
(* is neither client nor servent sends one datagram of its own to servent  *)
(* A.                                                                      *)
(***************************************************************************)
Stray ==
    /\ ~stray_sent
    /\ \E s \in {"A"}, data \in deployment.strays, port \in StrayPorts :
         net' = net (+) SetToBag({Datagram(<<LocalIP, port>>, ListenAddress(s),
                                           data, "stray")})
    /\ stray_sent' = TRUE
    /\ last' = Idle
    /\ UNCHANGED <<deployment, servent_vars, client_vars>>

Next ==
    \/ \E s \in Servents : ServentReceive(s)
    \/ \E c \in Clients : ClientLookup(c)
    \/ \E c \in Clients : ClientReceive(c)
    \/ \E c \in Clients : ClientRetry(c)
    \/ \E c \in Clients : ClientStop(c)
    \/ \E c \in Clients : ClientExit(c)
    \/ Stray

Spec == Init /\ [][Next]_vars

\* client.py lines 40, 44, 51, 58: recvfrom on a socket with a timeout
\* returns; it hands over a datagram or raises socket.timeout.
ClientWait(c) == ClientReceive(c) \/ ClientRetry(c) \/ ClientStop(c)

\* The runs in which no blocked recvfrom of a client blocks for ever.
FairSpec == Spec /\ \A c \in Clients : WF_vars(ClientWait(c))

\* The runs in which the network loses no datagram sent to a servent: the
\* receive loop of a servent (servent.py lines 37-39) takes every datagram
\* that waits at its socket.
DeliverySpec == Spec /\ \A s \in Servents : WF_vars(ServentReceive(s))

(***************************************************************************)
(* Properties.                                                             *)
(***************************************************************************)
\* The elements of a sequence.
Range(q) == {q[i] : i \in 1..Len(q)}

\* What a QUERY datagram carries, read from all of its bytes.
Carried(data) ==
    LET h == unpack_query_header(Take(data, QUERY_HEADER_SIZE))
        text == bytes_decode(Drop(data, QUERY_HEADER_SIZE))
    IN  Query(QueryContent(rstrip_nul(text.str),
                           <<inet_ntoa(h.packed_ip), h.port>>, h.sequence),
              h.ttl)

\* The last step was servent s handling a datagram of the given kind.
Handled(op) == last.op = op

\* The QUERY datagrams a state holds that servents sent.
QueriesInFlight ==
    {d \in BagToSet(net) :
        d.by \in Servents /\ Take(d.data, MESSAGE_TYPE_SIZE) = pack_type(QUERY)}

\* C1 (dedup idempotence): a servent makes at most one forward pass and sends
\* at most one RESPONSE for a query identity, and a QUERY whose identity the
\* servent has already seen makes it send nothing and leaves its seen set and
\* its sequence counter as they were.
C1_DedupIdempotence ==
    /\ [](/\ \A s \in Servents :
               /\ \A c \in BagToSet(forward_passes[s]) :
                      CopiesIn(c, forward_passes[s]) <= 1
               /\ \A c \in BagToSet(answers[s]) : CopiesIn(c, answers[s]) <= 1
          /\ (Handled("query") /\ last.seen_before) =>
                 /\ ~last.forward_pass
                 /\ last.forwards = <<>>
                 /\ last.responses = <<>>)
    /\ [][(last'.op = "query" /\ last'.seen_before) =>
              /\ queries_seen' = queries_seen
              /\ query_creator' = query_creator
              /\ \A d \in BagToSet(net') : CopiesIn(d, net') <= CopiesIn(d, net)
         ]_vars

\* C1 witness: a servent has just discarded a QUERY whose identity it had
\* forwarded before.
C1_Witness ==
    /\ Handled("query")
    /\ last.seen_before
    /\ BagIn(last.query.content, forward_passes[last.at])

\* C2 (no echo), as claimed: a servent that forwards a QUERY received from a
\* servent that is one of its neighbours sends it to every other neighbour
\* and not to that servent.
C2_NoEcho ==
    (/\ Handled("query")
     /\ last.forward_pass
     /\ last.datagram.by \in Servents
     /\ ListenAddress(last.datagram.by)
            \in Range(deployment.neighbor_addresses[last.at]))
    => {f.dst : f \in Range(last.forwards)}
           = Range(deployment.neighbor_addresses[last.at])
                 \ {ListenAddress(last.datagram.by)}

\* C3 (ttl gates forwarding, not the answer): a servent that decodes a QUERY
\* it has not seen to ttl 0 sends no QUERY, and sends one RESPONSE to the
\* origin address when the key is in its database.
C3_TtlGatesForwardingOnly ==
    (Handled("query") /\ ~last.seen_before /\ last.query.ttl = 0) =>
        /\ last.forwards = <<>>
        /\ last.query.content.key \in DOMAIN deployment.database[last.at] =>
               /\ Len(last.responses) = 1
               /\ last.responses[1].dst = last.query.content.address
               /\ last.responses[1].data =
                      pack_response(last.query.content.key,
                          deployment.database[last.at][last.query.content.key])

\* C3 witness: a servent with a neighbour and with the key decoded a new
\* QUERY to ttl 0 and answered.
C3_Witness ==
    /\ Handled("query")
    /\ ~last.seen_before
    /\ last.query.ttl = 0
    /\ deployment.neighbor_addresses[last.at] # <<>>
    /\ last.responses # <<>>

\* C4, as claimed: the QUERY a servent sends for a CLIREQ carries ttl 2.
C4_FirstHopTtlTwo ==
    Handled("clireq") =>
        \A f \in Range(last.forwards) : Carried(f.data).ttl = initial_ttl - 1

\* C4, amended: the QUERY a servent sends for a CLIREQ carries the initial
\* ttl, 3, the ttl of the query it created: encoding consumes no hop.
C4_FirstHopTtlInitial ==
    Handled("clireq") =>
        /\ last.query.ttl = initial_ttl
        /\ \A f \in Range(last.forwards) : Carried(f.data).ttl = initial_ttl

\* C4 witness: a servent accepted a CLIREQ and sent a QUERY to a neighbour.
C4_Witness ==
    /\ Handled("clireq")
    /\ last.forwards # <<>>
    /\ last.datagram.by \in Clients

\* C5 (per-hop decrement): a servent that receives a QUERY of wire ttl t
\* decodes it to t - 1 and every QUERY it then sends carries t - 1.
C5_PerHopDecrement ==
    Handled("query") =>
        /\ last.query.ttl = Carried(last.datagram.data).ttl - 1
        /\ \A f \in Range(last.forwards) :
               /\ Carried(f.data).ttl = Carried(last.datagram.data).ttl - 1
               /\ Carried(f.data).ttl < Carried(last.datagram.data).ttl

\* C5 witness: a servent forwarded a QUERY it received.
C5_Witness ==
    /\ Handled("query")
    /\ last.forwards # <<>>

\* C6 (responses go to the origin): every RESPONSE a servent sends goes to
\* the origin address of the query, the address of the client socket that
\* sent the CLIREQ the query was made from, and not to the sender of the
\* QUERY.
C6_ResponseToOrigin ==
    \A r \in Range(last.responses) :
        /\ r.dst = last.query.content.address
        /\ \E e \in created :
               /\ e.content.address = last.query.content.address
               /\ e.content.sequence = last.query.content.sequence
               /\ e.by \in Clients
               /\ e.origin = r.dst
        /\ Handled("query") => r.dst # last.datagram.src

\* C6 witness: a servent that received the QUERY from another servent
\* answered it.
C6_Witness ==
    /\ Handled("query")
    /\ last.datagram.by \in Servents
    /\ last.responses # <<>>

\* C7 (sequence numbering): the k-th CLIREQ of a servent gives a query of
\* sequence k - 1; the counter starts at 0, grows by 1 with every CLIREQ and
\* changes with no other datagram.
C7_SequenceNumbering ==
    /\ [](/\ \A s \in Servents :
               running[s] => query_creator[s].next_sequence = clireqs[s]
          /\ Handled("clireq") =>
                 last.query.content.sequence = clireqs[last.at] - 1
          /\ \A e \in created : e.content.sequence = e.n - 1)
    /\ [][\A s \in Servents :
              query_creator'[s] # query_creator[s] =>
                  /\ last'.op = "clireq"
                  /\ last'.at = s
                  /\ query_creator'[s].next_sequence
                         = query_creator[s].next_sequence + 1
         ]_vars

\* C7 witness: a servent made a query from its second CLIREQ.
C7_Witness ==
    /\ Handled("clireq")
    /\ clireqs[last.at] = 2
    /\ last.query.content.sequence = 1

\* C8 (identity uniqueness), as claimed: two CLIREQ receptions, at one
\* servent or at two, give queries of different identity, and no servent
\* discards a query made from a CLIREQ as one it has seen.
C8_IdentityUnique ==
    /\ \A e1, e2 \in created :
           (e1.at # e2.at \/ e1.n # e2.n) => e1.content # e2.content
    /\ Handled("clireq") => ~last.seen_before

\* C9 (identity preserved), as claimed: a QUERY a servent sends carries the
\* key, origin address and sequence of the query it received, which are those
\* of a query made from a CLIREQ.
C9_IdentityPreserved ==
    /\ \A d \in QueriesInFlight :
           \E e \in created : Carried(d.data).content = e.content
    /\ Handled("query") =>
           \A f \in Range(last.forwards) :
               Carried(f.data).content = Carried(last.datagram.data).content

\* C10 (the loop survives every datagram), as claimed: no received datagram
\* ends the receive loop of a servent.
C10_LoopNeverEnds ==
    \A s \in Servents : running[s]

\* C11 (a RESPONSE at a servent is discarded): a servent that receives a
\* datagram tagged RESPONSE sends nothing, keeps its seen set and its sequence
\* counter as they were and stays in its receive loop; the step only takes
\* the datagram off the network.
C11_ResponseDiscarded ==
    /\ [](Handled("response") =>
              /\ last.forwards = <<>>
              /\ last.responses = <<>>
              /\ ~last.forward_pass
              /\ running[last.at])
    /\ [][last'.op = "response" =>
              /\ queries_seen' = queries_seen
              /\ query_creator' = query_creator
              /\ running' = running
              /\ net' = net (-) SetToBag({last'.datagram})
              /\ created' = created
         ]_vars

\* C11 witness: a servent that has a query in its seen set and has drawn a
\* sequence number has just received a RESPONSE.
C11_Witness ==
    /\ Handled("response")
    /\ extract_message_type(last.datagram.data).val = RESPONSE
    /\ queries_seen[last.at] # {}
    /\ query_creator[last.at].next_sequence > 0

\* C12 (single retry): in a lookup the client calls sendto for its CLIREQ at
\* most twice; it sends the second time exactly when the first wait times
\* out, which is before any RESPONSE was received; it sends no CLIREQ once it
\* has received a RESPONSE or has sent twice; and a lookup that ends with
\* nothing printed has had two sends and two timeouts.
C12_SingleRetry ==
    /\ [](\A c \in Clients :
              /\ sendtos[c] <= 2
              /\ pc[c] = "first" =>
                     sendtos[c] = 1 /\ timeouts[c] = 0 /\ printed[c] = <<>>)
    /\ [][\A c \in Clients :
              /\ (pc[c] # "prompt" /\ sendtos'[c] = sendtos[c] + 1)
                     <=> (pc[c] = "first" /\ timeouts'[c] = timeouts[c] + 1)
              /\ (pc[c] # "prompt" /\ sendtos'[c] # sendtos[c]) =>
                     printed[c] = <<>> /\ sendtos[c] = 1
              /\ (\E d \in BagToSet(net') :
                      d.by = c /\ CopiesIn(d, net') > CopiesIn(d, net)) =>
                     \/ pc[c] = "prompt"
                     \/ printed[c] = <<>> /\ sendtos[c] = 1
              /\ (pc[c] = "drain" /\ pc'[c] = "prompt" /\ printed[c] = <<>>) =>
                     sendtos[c] = 2 /\ timeouts'[c] = 2
         ]_vars

\* C12 witness: a lookup has ended at the prompt with nothing printed, after
\* two sends and two timeouts.
C12_Witness ==
    \E c \in Clients :
        /\ pc[c] = "prompt"
        /\ sendtos[c] = 2
        /\ timeouts[c] = 2
        /\ printed[c] = <<>>

\* The RESPONSE datagrams of servent s on their way to the socket of client
\* c, with their multiplicity.
ResponsesInFlight(s, c) ==
    LET to_c == {d \in BagToSet(net) :
                    /\ d.by = s
                    /\ d.dst = <<LocalIP, client_socket[c]>>
                    /\ Take(d.data, MESSAGE_TYPE_SIZE) = pack_type(RESPONSE)}
    IN  BagCardinality([d \in to_c |-> CopiesIn(d, net)])

\* The lines client c has printed in its lookup that servent s sent.
LinesFrom(s, c) ==
    Cardinality({i \in DOMAIN printed[c] : printed[c][i].by = s})

\* C13 (one answer per holder), as claimed: in a lookup, a servent sends at
\* most one RESPONSE to the client and the client prints at most one line
\* per servent, also when the client has sent its CLIREQ twice.
C13_OneAnswerPerHolder ==
    \A c \in Clients : \A s \in Servents :
        /\ LinesFrom(s, c) <= 1
        /\ pc[c] \in {"first", "drain"} =>
               LinesFrom(s, c) + ResponsesInFlight(s, c) <= 1

\* C14 (a lookup terminates): a client that has sent its CLIREQ eventually
\* has a wait of the drain loop time out and is back at the prompt; it does
\* not receive for ever, the RESPONSE datagrams of a lookup being finitely
\* many.
C14_LookupTerminates ==
    \A c \in Clients :
        (pc[c] = "first") ~> (pc[c] = "prompt" /\ timeouts[c] >= 1)

\* C14 witness: a client is back at the prompt after a lookup in which it
\* printed a RESPONSE.
C14_Witness ==
    \E c \in Clients :
        /\ pc[c] = "prompt"
        /\ printed[c] # <<>>
        /\ timeouts[c] >= 1

\* The QUERY datagrams of servents that wait at the socket of a servent in
\* its receive loop.
QueriesPending ==
    {d \in QueriesInFlight :
        \E s \in Servents : running[s] /\ d.dst = ListenAddress(s)}

\* C15 (flooding terminates): whatever the neighbour graph, cycles and mutual
\* neighbours included, after finitely many client requests the network is
\* eventually, and from then on, without a QUERY in flight; and a servent
\* sends a QUERY of one identity to one neighbour at most once in a run.
C15_FloodingTerminates ==
    /\ <>[](QueriesPending = {})
    /\ [](\A q \in BagToSet(queries_sent) : CopiesIn(q, queries_sent) <= 1)

\* C15 witness: on a cycle of neighbours a servent has discarded the QUERY
\* that came back to it, and no QUERY is in flight.
C15_Witness ==
    /\ deployment.name \in {"pair", "ring"}
    /\ Handled("query")
    /\ last.seen_before
    /\ \E q \in BagToSet(queries_sent) :
           q.by = last.at /\ q.content = last.query.content
    /\ QueriesInFlight = {}

\* The servents whose listen address is a configured neighbour of servent s.
Neighbours(s) ==
    {t \in Servents :
        ListenAddress(t) \in Range(deployment.neighbor_addresses[s])}

\* The servents at most k neighbour links away from servent s.
RECURSIVE Within(_, _)
Within(s, k) ==
    IF k = 0 THEN {s}
    ELSE LET near == Within(s, k - 1)
         IN  near \cup UNION {Neighbours(t) : t \in near}

\* C16 (hop bound): a QUERY for a query made from a CLIREQ travels at most 3
\* hops from servent to servent, and a servent that processes the query is
\* at most 3 neighbour links away from the servent that made it, whatever
\* the topology and the order of delivery.
C16_HopBound ==
    /\ \A d \in QueriesInFlight : d.hops \in 1..initial_ttl
    /\ (Handled("query") /\ last.datagram.by \in Servents) =>
           /\ last.datagram.hops \in 1..initial_ttl
           /\ last.at \in Within(last.datagram.root, initial_ttl)
           /\ last.at \in Within(last.datagram.root, last.datagram.hops)
           /\ \A f \in Range(last.forwards) : f.hops \in 2..initial_ttl

\* C16 witness: a servent that is 3 links and no less away from the servent
\* that made the query has processed it, on the third hop.
C16_Witness ==
    /\ Handled("query")
    /\ ~last.seen_before
    /\ last.datagram.by \in Servents
    /\ last.datagram.hops = initial_ttl
    /\ last.at \notin Within(last.datagram.root, initial_ttl - 1)
    /\ last.forwards = <<>>

\* Every datagram sent to a servent has been delivered: none is lost and
\* none waits.
AllDelivered ==
    \A d \in BagToSet(net) : \A s \in Servents : d.dst # ListenAddress(s)

\* Servent t has processed the query e made from a CLIREQ: it has passed the
\* dedup with it, and has answered it if it has the key.
Processed(t, e) ==
    \E q \in queries_seen[t] :
        /\ q.address = e.content.address
        /\ q.sequence = e.content.sequence
        /\ q.key \in DOMAIN deployment.database[t] => BagIn(q, answers[t])

\* C17 (flood coverage), as claimed: when no datagram is lost, once the
\* datagrams sent to servents are all delivered, in whatever order, every
\* servent within 3 neighbour links of the servent that made a query has
\* processed the query.
C17_FloodCoverage ==
    AllDelivered =>
        \A e \in created : \A t \in Within(e.at, initial_ttl) :
            running[t] => Processed(t, e)

\* C18 (forwarding and the local answer are independent): a servent that
\* processes a query it has not seen sends a QUERY to each of its neighbours
\* other than the sender of the datagram when the ttl is above 0, whether
\* it has the key or not, and sends one RESPONSE when it has the key,
\* whether it forwards or not.
C18_ForwardAndAnswerIndependent ==
    (last.op \in {"clireq", "query"} /\ ~last.seen_before
         /\ running[last.at]) =>
        LET neighbors == deployment.neighbor_addresses[last.at]
            key == last.query.content.key
        IN  /\ [i \in 1..Len(last.forwards) |-> last.forwards[i].dst]
                   = IF last.query.ttl > 0
                     THEN SelectSeq(neighbors,
                                    LAMBDA n : n # last.datagram.src)
                     ELSE <<>>
            /\ Len(last.responses)
                   = IF key \in DOMAIN deployment.database[last.at] THEN 1
                                                                     ELSE 0

\* C18 witness: a servent that has the key and has neighbours has both
\* forwarded and answered a query of ttl above 0.
C18_Witness ==
    /\ Handled("query")
    /\ ~last.seen_before
    /\ last.query.ttl > 0
    /\ last.forwards # <<>>
    /\ last.responses # <<>>

\* C19 (ttl range): while every QUERY datagram is one a servent sent, the
\* ttl of a QUERY on the wire is in 1..3 and the ttl of a query a servent
\* holds after decoding is in 0..3, never negative.
C19_TtlRange ==
    /\ \A d \in QueriesInFlight : Carried(d.data).ttl \in 1..initial_ttl
    /\ \A f \in Range(last.forwards) : Carried(f.data).ttl \in 1..initial_ttl
    /\ (last.op \in {"clireq", "query"} /\ last.datagram.by # "stray") =>
           /\ last.query.ttl \in 0..initial_ttl
           /\ last.query.ttl >= 0
           /\ Handled("query") =>
                  Carried(last.datagram.data).ttl \in 1..initial_ttl

\* C19 witness: a servent has decoded the QUERY of another servent, of ttl 1
\* on the wire, to ttl 0.
C19_Witness ==
    /\ Handled("query")
    /\ last.datagram.by \in Servents
    /\ Carried(last.datagram.data).ttl = 1
    /\ last.query.ttl = 0

====
